---- MODULE Spec2Model ----
(***************************************************************************)
(* Model of the infiniti_api client library: the request caller            *)
(* (RWYAPICaller), the four endpoint groups (SystemEndpoint,               *)
(* DeviceEndpoint, PanTiltEndpoint, VisibleLensEndpoint) and the facade    *)
(* (InfinitiAPI).  One step of the model is one public method call made    *)
(* by a client, together with the answer the HTTP transport gives to the   *)
(* request the call issues (if it issues one).                             *)
(***************************************************************************)
EXTENDS Integers, Sequences, FiniteSets, TLC

VARIABLES
    base_url,       \* RWYAPICaller.base_url
    session_auth,   \* RWYAPICaller.session.auth
    api_caller,     \* group -> the caller object the group refers to
    endpoint,       \* group -> the group's path prefix (self.endpoint)
    calls,          \* number of public method calls made so far
    sent,           \* number of HTTP requests handed to the transport so far
    lastCall,       \* the most recent method call: group, name, arguments
    lastReqs,       \* the requests that call handed to the transport
    outcome,        \* what the transport did with that request
    result          \* how the call ended: a returned value or a raised exception

vars == <<base_url, session_auth, api_caller, endpoint, calls, sent,
          lastCall, lastReqs, outcome, result>>

(***************************************************************************)
(* Bounds of the model.                                                    *)
(***************************************************************************)
MaxCalls == 3      \* method calls in one run
MaxSpeed == 2      \* speeds range over -MaxSpeed .. MaxSpeed

(***************************************************************************)
(* Python values.  Every value has the same record shape so that values    *)
(* of different Python types can be compared: t is the type, n the number  *)
(* of an int or bool, s the text of a str, m the items of a dict           *)
(* (key, value), list or tuple (key "").                                   *)
(***************************************************************************)
PyVal(t, n, s, m) == [t |-> t, n |-> n, s |-> s, m |-> m]
None == PyVal("none", 0, "", <<>>)
PyInt(i) == PyVal("int", i, "", <<>>)
PyBool(b) == PyVal("bool", IF b THEN 1 ELSE 0, "", <<>>)
PyStr(x) == PyVal("str", 0, x, <<>>)
Item(k, v) == [k |-> k, v |-> v]
PyDict(items) == PyVal("dict", 0, "", items)
PyList(items) == PyVal("list", 0, "", items)
PyTuple2(a, b) == PyVal("tuple", 0, "", <<Item("", a), Item("", b)>>)

\* `key in d` for a dict d
HasKey(d, key) == \E i \in 1..Len(d.m) : d.m[i].k = key
\* d[key] for a dict d that has the key
Lookup(d, key) == d.m[CHOOSE i \in 1..Len(d.m) : d.m[i].k = key].v
\* `x is None`
IsNone(v) == v.t = "none"
\* truthiness of a value (`if x:`)
Truthy(v) ==
    CASE v.t = "none" -> FALSE
      [] v.t \in {"int", "bool"} -> v.n # 0
      [] v.t = "str" -> v.s # ""
      [] OTHER -> Len(v.m) > 0
\* f"{value}" / str(value)
PyFormat(v) ==
    CASE v.t = "none" -> "None"
      [] v.t = "str" -> v.s
      [] v.t = "int" -> ToString(v.n)
      [] v.t = "bool" -> IF v.n = 1 THEN "True" ELSE "False"
      [] OTHER -> "<object>"
Abs(i) == IF i < 0 THEN -i ELSE i
Max(a, b) == IF a >= b THEN a ELSE b

(***************************************************************************)
(* How a call ends.                                                        *)
(***************************************************************************)
Return(v) == [kind |-> "return", exc |-> "", val |-> v]
Raise(e) == [kind |-> "raise", exc |-> e, val |-> None]
NotCalled == [kind |-> "none", exc |-> "", val |-> None]

\* value[key] as get_position / get_visiblelens evaluate it
Subscript(v, key) ==
    IF v.t = "dict"
    THEN IF HasKey(v, key) THEN Return(Lookup(v, key)) ELSE Raise("KeyError")
    ELSE Raise("TypeError")

(***************************************************************************)
(* The HTTP transport (requests.Session).  An outcome is what the          *)
(* transport does with one request: it fails to connect, or it delivers a  *)
(* response with a status code and a body that is valid JSON or not.       *)
(***************************************************************************)
NotJson == [valid |-> FALSE, json |-> None]
Json(v) == [valid |-> TRUE, json |-> v]
ConnErr == [conn |-> FALSE, status |-> 0, body |-> NotJson]
Http(status, body) == [conn |-> TRUE, status |-> status, body |-> body]
NoOutcome == [conn |-> FALSE, status |-> -1, body |-> NotJson]

PosPayload == PyDict(<<Item("pan", PyInt(10)), Item("tilt", PyInt(-3))>>)
LensPayload == PyDict(<<Item("zoom", PyInt(2)), Item("focus", PyInt(4))>>)
Envelope(p) == PyDict(<<Item("data", p)>>)
NoDataDict == PyDict(<<Item("error", PyStr("bad"))>>)

Bodies ==
    { NotJson, Json(NoDataDict), Json(PyList(<<>>)), Json(PyInt(7)),
      Json(Envelope(None)), Json(Envelope(PosPayload)),
      Json(Envelope(LensPayload)) }

\* 200 OK; 300 Multiple Choices, which the session does not follow when
\* the response names no location; 404 and 500, the client and server errors
Statuses == {200, 300, 404, 500}

Outcomes == {ConnErr} \cup {Http(st, b) : st \in Statuses, b \in Bodies}

(***************************************************************************)
(* Strings.                                                                *)
(***************************************************************************)
EndsWith(x, p) ==
    Len(x) >= Len(p) /\ SubSeq(x, Len(x) - Len(p) + 1, Len(x)) = p
StartsWith(x, p) == Len(x) >= Len(p) /\ SubSeq(x, 1, Len(p)) = p
Contains(x, p) ==
    \E i \in 1..(Len(x) - Len(p) + 1) : SubSeq(x, i, i + Len(p) - 1) = p
\* the query of url carries the parameter k=v
HasParam(url, k, v) ==
    LET kv == k \o "=" \o v
    IN \/ Contains(url, "?" \o kv \o "&")
       \/ Contains(url, "&" \o kv \o "&")
       \/ EndsWith(url, "?" \o kv)
       \/ EndsWith(url, "&" \o kv)
\* the query of url carries a parameter named k
HasParamNamed(url, k) ==
    Contains(url, "?" \o k \o "=") \/ Contains(url, "&" \o k \o "=")

(***************************************************************************)
(* RWYAPICaller.                                                           *)
(***************************************************************************)
\* The base URLs of the model have a scheme and a host and no path.
BaseUrls == {"http://cam", "http://10.0.0.5:8080"}
\* auth=None, or a (username, password) pair
Auths == {None, PyTuple2(PyStr("admin"), PyStr("secret"))}

\* RWYAPICaller.__init__: the value session.auth has after construction
SessionAuthInit(auth) == IF Truthy(auth) THEN auth ELSE None

\* urllib.parse.urljoin(base, url) for a base without a path: an absolute
\* url is kept, a rooted path replaces the base's (empty) path, a relative
\* path is resolved against the root
urljoin(base, url) ==
    IF StartsWith(url, "http://") \/ StartsWith(url, "https://") THEN url
    ELSE IF StartsWith(url, "/") THEN base \o url
    ELSE base \o "/" \o url

\* The exception classes that derive from requests.exceptions.RequestException:
\* what session.request raises when it cannot connect, what raise_for_status
\* raises, and what response.json() raises on a body that is not JSON
\* (requests.exceptions.JSONDecodeError, requests 2.27 and later).
RequestException == {"ConnectionError", "HTTPError", "JSONDecodeError"}

\* response.raise_for_status(): raises HTTPError for a 4xx or 5xx status
raise_for_status(status) == 400 <= status /\ status < 600

\* unwrap that hands back the whole envelope instead of its data
unwrap_whole_envelope(json_data) ==
    IF json_data.t = "dict" /\ HasKey(json_data, "data")
    THEN json_data
    ELSE None

\* the envelope check of _send_request on the parsed body
unwrap(json_data) ==
    IF json_data.t = "dict" /\ HasKey(json_data, "data")
    THEN Lookup(json_data, "data")
    ELSE None

\* the body of the try block of _send_request
try_request(o) ==
    IF ~o.conn THEN Raise("ConnectionError")
    ELSE IF raise_for_status(o.status) THEN Raise("HTTPError")
    ELSE IF ~o.body.valid THEN Raise("JSONDecodeError")
    ELSE Return(unwrap(o.body.json))

\* except_clause with an except clause that names ConnectionError only
except_clause_connection_only(attempt) ==
    IF attempt.kind = "raise" /\ attempt.exc = "ConnectionError"
    THEN Return(None)
    ELSE attempt

\* the except clause of _send_request
except_clause(attempt) ==
    IF attempt.kind = "raise" /\ attempt.exc \in RequestException
    THEN Return(None)
    ELSE attempt

Request(method, ep, payload) ==
    [method |-> method, endpoint |-> ep, url |-> urljoin(base_url, ep),
     payload |-> payload]

\* The effect of a piece of code: the requests it hands to the transport
\* and how it ends.
Effect(reqs, res) == [reqs |-> reqs, res |-> res]

send_request(method, ep, payload, o) ==
    Effect(<<Request(method, ep, payload)>>, except_clause(try_request(o)))

get(ep, o) == send_request("GET", ep, None, o)
post(ep, payload, o) == send_request("POST", ep, payload, o)

build_path(ep, sub_path) ==
    IF IsNone(sub_path)
    THEN base_url \o "/" \o ep
    ELSE base_url \o "/" \o ep \o "/" \o PyFormat(sub_path)

\* "&".join([f"{key}={value}" for key, value in query_params.items()])
RECURSIVE query_string(_)
query_string(items) ==
    IF Len(items) = 0 THEN ""
    ELSE IF Len(items) = 1
    THEN items[1].k \o "=" \o PyFormat(items[1].v)
    ELSE items[1].k \o "=" \o PyFormat(items[1].v) \o "&"
         \o query_string(Tail(items))

\* build_path_with_query without the `if query_params:` test
build_path_with_query_always_marked(ep, sub_path, query_params) ==
    build_path(ep, sub_path) \o "?" \o query_string(query_params)

build_path_with_query(ep, sub_path, query_params) ==
    IF Len(query_params) > 0
    THEN build_path(ep, sub_path) \o "?" \o query_string(query_params)
    ELSE build_path(ep, sub_path)

\* is_None with the test turned round (`is not None`)
is_not_None(eff) ==
    IF eff.res.kind = "return"
    THEN Effect(eff.reqs, Return(PyBool(~IsNone(eff.res.val))))
    ELSE eff

\* `<call> is None`: the boolean the visible-lens setters make of a response
is_None(eff) ==
    IF eff.res.kind = "return"
    THEN Effect(eff.reqs, Return(PyBool(IsNone(eff.res.val))))
    ELSE eff

\* data[a], data[b]: the pair get_position / get_visiblelens make of a response
destructure(eff, a, b) ==
    IF eff.res.kind # "return" THEN eff
    ELSE LET x == Subscript(eff.res.val, a)
             y == Subscript(eff.res.val, b)
         IN IF x.kind = "raise" THEN Effect(eff.reqs, x)
            ELSE IF y.kind = "raise" THEN Effect(eff.reqs, y)
            ELSE Effect(eff.reqs, Return(PyTuple2(x.val, y.val)))

\* raise ValueError(...) before any request is built
validation_error == Effect(<<>>, Raise("ValueError"))

(***************************************************************************)
(* InfinitiAPI: one caller, shared by the four endpoint groups.            *)
(***************************************************************************)
Groups == {"system", "device", "pantilt", "visible"}
TheCaller == "api_caller"
\* the prefix each group's __init__ sets
EndpointInit ==
    [g \in Groups |->
        CASE g = "system" -> "/api/system"
          [] g = "device" -> "api/devices"
          [] g = "pantilt" -> "api/devices/pantilt"
          [] g = "visible" -> "api/devices/visible"]

Cmd(c) == <<Item("command", PyStr(c))>>
Action(a) == <<Item("action", PyStr(a))>>

(***************************************************************************)
(* SystemEndpoint.                                                         *)
(***************************************************************************)
System_get_status(o) == get(endpoint["system"], o)
System_get_versions(o) == get(build_path(endpoint["system"], PyStr("versions")), o)
System_get_info(o) == get(build_path(endpoint["system"], PyStr("info")), o)
System_get_time(o) == get(build_path(endpoint["system"], PyStr("time")), o)
System_set_time(timestamp, o) ==
    post(build_path(endpoint["system"], PyStr("time")),
         PyDict(<<Item("timestamp", timestamp)>>), o)
System_get_ethernet(o) == get(build_path(endpoint["system"], PyStr("ethernet")), o)
System_get_accounts(o) == get(build_path(endpoint["system"], PyStr("accounts")), o)
System_get_account(account_name, o) ==
    get(build_path(endpoint["system"],
                   PyStr("accounts/" \o PyFormat(account_name))), o)
System_restart_hardware(o) ==
    get(build_path_with_query(endpoint["system"], PyStr(""),
                              Cmd("hardwareRestart")), o)
System_restart_software(o) ==
    get(build_path_with_query(endpoint["system"], PyStr(""),
                              Cmd("softwareRestart")), o)
System_get_presets(o) == get(build_path(endpoint["system"], PyStr("presets")), o)
System_get_preset(preset_id, o) ==
    get(build_path(endpoint["system"],
                   PyStr("presets/" \o PyFormat(preset_id))), o)
System_delete_preset(preset_id, o) ==
    get(build_path_with_query(endpoint["system"],
                              PyStr("presets/" \o PyFormat(preset_id)),
                              Action("clear")), o)
System_goto_preset(preset_id, o) ==
    get(build_path_with_query(endpoint["system"],
                              PyStr("presets/" \o PyFormat(preset_id)),
                              Action("goto")), o)
System_stop_preset_move(o) ==
    get(build_path_with_query(endpoint["system"], PyStr("presets"),
                              Cmd("stop")), o)
System_delete_all_presets(o) ==
    get(build_path_with_query(endpoint["system"], PyStr("presets"),
                              Cmd("clearAll")), o)

(***************************************************************************)
(* DeviceEndpoint.                                                         *)
(***************************************************************************)
Device_get_devices(o) == get(endpoint["device"], o)
Device_get_device_state(device_name, o) ==
    get(build_path(endpoint["device"], device_name), o)
Device_reinitialize_device(device_name, o) ==
    get(build_path_with_query(endpoint["device"], device_name,
                              Cmd("initialize")), o)

(***************************************************************************)
(* PanTiltEndpoint.                                                        *)
(***************************************************************************)
PanTilt_get_status(o) == get(endpoint["pantilt"], o)
\* get_position with the two fields read in the other order
PanTilt_get_position_tilt_first(o) ==
    destructure(get(build_path(endpoint["pantilt"], PyStr("position")), o),
                "tilt", "pan")
PanTilt_get_position(o) ==
    destructure(get(build_path(endpoint["pantilt"], PyStr("position")), o),
                "pan", "tilt")
PanTilt_set_position(pan, tilt, o) ==
    post(build_path(endpoint["pantilt"], PyStr("position")),
         PyDict(<<Item("pan", pan), Item("tilt", tilt)>>), o)

\* the query relative_move builds: no check of move_direction is made
relative_move_query(move_direction, speed, pan_speed, tilt_speed) ==
    <<Item("command", PyStr("move")), Item("direction", move_direction)>>
    \o (IF ~IsNone(speed)
        THEN <<Item("speed", PyStr(PyFormat(speed)))>>
        ELSE <<Item("panSpeed", PyStr(PyFormat(pan_speed))),
               Item("tiltSpeed", PyStr(PyFormat(tilt_speed)))>>)
PanTilt_relative_move(move_direction, speed, pan_speed, tilt_speed, o) ==
    get(build_path_with_query(endpoint["pantilt"], None,
            relative_move_query(move_direction, speed, pan_speed, tilt_speed)),
        o)

PanTilt_stop(o) ==
    get(build_path_with_query(endpoint["pantilt"], None, Cmd("stop")), o)

\* pan_direction / tilt_direction of continuous_move; "" stands for None
pan_direction(pan_speed) ==
    IF pan_speed > 0 THEN "right" ELSE IF pan_speed < 0 THEN "left" ELSE ""
tilt_direction(tilt_speed) ==
    IF tilt_speed > 0 THEN "up" ELSE IF tilt_speed < 0 THEN "down" ELSE ""
\* continuous_move_query that always sends the per-axis speeds
continuous_move_query_per_axis_only(pan_speed, tilt_speed) ==
    <<Item("command", PyStr("move")),
      Item("direction",
           PyStr(tilt_direction(tilt_speed) \o pan_direction(pan_speed))),
      Item("panSpeed", PyStr(ToString(Abs(pan_speed)))),
      Item("tiltSpeed", PyStr(ToString(Abs(tilt_speed))))>>

\* continuous_move_query with the direction tokens in the other order
continuous_move_query_pan_first(pan_speed, tilt_speed) ==
    <<Item("command", PyStr("move")),
      Item("direction",
           PyStr(pan_direction(pan_speed) \o tilt_direction(tilt_speed)))>>
    \o (IF pan_speed = 0 \/ tilt_speed = 0
        THEN <<Item("speed",
                    PyStr(ToString(Max(Abs(pan_speed), Abs(tilt_speed)))))>>
        ELSE <<Item("panSpeed", PyStr(ToString(Abs(pan_speed)))),
               Item("tiltSpeed", PyStr(ToString(Abs(tilt_speed))))>>)

\* the query of the move branch of continuous_move
continuous_move_query(pan_speed, tilt_speed) ==
    <<Item("command", PyStr("move")),
      Item("direction",
           PyStr(tilt_direction(tilt_speed) \o pan_direction(pan_speed)))>>
    \o (IF pan_speed = 0 \/ tilt_speed = 0
        THEN <<Item("speed",
                    PyStr(ToString(Max(Abs(pan_speed), Abs(tilt_speed)))))>>
        ELSE <<Item("panSpeed", PyStr(ToString(Abs(pan_speed)))),
               Item("tiltSpeed", PyStr(ToString(Abs(tilt_speed))))>>)
\* continuous_move whose stop branch issues nothing
continuous_move_stop_branch_silent(o) == Effect(<<>>, Return(None))

\* the stop branch calls self.stop() and drops what it returns: the method
\* falls off its end and returns None
continuous_move_stop_branch(o) == Effect(PanTilt_stop(o).reqs, Return(None))
PanTilt_continuous_move(pan_speed, tilt_speed, o) ==
    IF pan_direction(pan_speed) = "" /\ tilt_direction(tilt_speed) = ""
    THEN continuous_move_stop_branch(o)
    ELSE get(build_path_with_query(endpoint["pantilt"], None,
                 continuous_move_query(pan_speed, tilt_speed)), o)

PanTilt_home(o) ==
    get(build_path_with_query(endpoint["pantilt"], None, Cmd("home")), o)
PanTilt_get_config(o) == get(build_path(endpoint["pantilt"], PyStr("config")), o)
PanTilt_get_gyrostatus(o) == get(build_path(endpoint["pantilt"], PyStr("gyro")), o)
PanTilt_set_gyrostatus(status, o) ==
    get(build_path_with_query(endpoint["pantilt"], PyStr("gyro"),
                              <<Item("enable", status)>>), o)
PanTilt_get_ethernet_config(o) ==
    get(build_path(endpoint["pantilt"], PyStr("ethernet")), o)

(***************************************************************************)
(* VisibleLensEndpoint.                                                    *)
(***************************************************************************)
\* the allow-lists of set_color, move_lens and set_heatwave_intensity
valid_color_modes == {PyStr("day"), PyStr("night"), PyStr("autoColor")}
valid_zooms ==
    {PyStr("zoomTele"), PyStr("zoomWide"), PyStr("focusFar"), PyStr("focusNear")}
valid_heatwave_modes == {PyStr("Low"), PyStr("Medium"), PyStr("High")}

Visible_command(query_params, o) ==
    is_None(get(build_path_with_query(endpoint["visible"], None, query_params), o))

Visible_get_visiblelens(o) ==
    destructure(get(build_path(endpoint["visible"], PyStr("position")), o),
                "zoom", "focus")
Visible_set_zoom(zoom, o) ==
    is_None(post(build_path(endpoint["visible"], PyStr("position")),
                 PyDict(<<Item("zoom", zoom)>>), o))
Visible_set_visiblelens(zoom, focus, o) ==
    is_None(post(build_path(endpoint["visible"], PyStr("position")),
                 PyDict(<<Item("zoom", zoom), Item("focus", focus)>>), o))
\* set_color without its allow-list check
Visible_set_color_unchecked(mode, o) ==
    Visible_command(<<Item("command", mode)>>, o)
Visible_set_color(mode, o) ==
    IF mode \notin valid_color_modes THEN validation_error
    ELSE Visible_command(<<Item("command", mode)>>, o)
Visible_run_backfocus(o) == Visible_command(Cmd("backfocus"), o)
Visible_set_digitalzoom(mode, o) ==
    Visible_command(Cmd("digitialZoom") \o <<Item("mode", mode)>>, o)
Visible_set_digital_stabilization(enable, o) ==
    Visible_command(Cmd("stabilization") \o <<Item("enable", enable)>>, o)
Visible_move_lens(zoom_move, o) ==
    IF zoom_move \notin valid_zooms THEN validation_error
    ELSE Visible_command(<<Item("command", zoom_move)>>, o)
Visible_stop_lens(o) == Visible_command(Cmd("stop"), o)
Visible_set_fogfilter(state, o) ==
    Visible_command(Cmd("fogFilter") \o <<Item("state", state)>>, o)
Visible_set_autofocus_mode(enable, o) ==
    Visible_command(Cmd("zoomTriggerAutofocus") \o <<Item("enable", enable)>>, o)
Visible_autofocus(o) == Visible_command(Cmd("autofocus"), o)
Visible_set_heatwave_intensity(mode, o) ==
    IF mode \notin valid_heatwave_modes THEN validation_error
    ELSE Visible_command(Cmd("heatwaveIntensityMode") \o <<Item("mode", mode)>>, o)
Visible_get_config(o) == get(build_path(endpoint["visible"], PyStr("config")), o)

\* the fixed defaults set_config posts
default_config ==
    PyDict(<<Item("2dnr", PyInt(55)), Item("3dnr", PyInt(55)),
             Item("autofocusMode", PyStr("ZOOM_TRIGGER")),
             Item("colorMode", PyStr("AUTO")),
             Item("focusMode", PyStr("DISABLED")),
             Item("focusSpeed", PyInt(4)), Item("fogFilter", PyBool(FALSE)),
             Item("gamma", PyInt(8)), Item("heatWaveMode", PyStr("OFF")),
             Item("processingMode", PyStr("WDR")),
             Item("sharpening", PyInt(5)), Item("stabilizing", PyBool(TRUE)),
             Item("zoomSpeed", PyInt(1))>>)
\* set_config returns what post returns, without the `is None` reduction
Visible_set_config(o) ==
    post(build_path(endpoint["visible"], PyStr("config")), default_config, o)

Visible_zoomTele(o) == Visible_move_lens(PyStr("zoomTele"), o)
Visible_zoomWide(o) == Visible_move_lens(PyStr("zoomWide"), o)
Visible_focusFar(o) == Visible_move_lens(PyStr("focusFar"), o)
Visible_focusNear(o) == Visible_move_lens(PyStr("focusNear"), o)
Visible_continuous_zoom(speed, o) ==
    IF speed > 0 THEN Visible_zoomTele(o)
    ELSE IF speed < 0 THEN Visible_zoomWide(o)
    ELSE Visible_stop_lens(o)

(***************************************************************************)
(* The arguments the model's clients pass.                                 *)
(***************************************************************************)
Speeds == (0 - MaxSpeed)..MaxSpeed
Bools == {PyBool(TRUE), PyBool(FALSE)}
ColorArgs == valid_color_modes \cup {PyStr("invalid")}
ZoomMoveArgs == valid_zooms \cup {PyStr("zoomIn")}
HeatwaveArgs == valid_heatwave_modes \cup {PyStr("low")}
DirectionArgs ==
    {PyStr("up"), PyStr("down"), PyStr("left"), PyStr("right"), PyStr("sideways")}
\* (speed, pan_speed, tilt_speed) of relative_move
RelativeSpeedArgs ==
    { <<PyInt(1), None, None>>, <<None, PyInt(1), PyInt(2)>>, <<None, None, None>> }
PositionArgs == { <<PyInt(0), PyInt(0)>>, <<PyInt(10), PyInt(-3)>> }
ZoomArgs == {PyInt(0), PyInt(2)}
LensArgs == { <<PyInt(2), PyInt(4)>> }
TimestampArgs == {PyInt(0), PyInt(1700000000)}
AccountArgs == {PyStr("admin")}
PresetArgs == {PyInt(1), PyInt(2)}
DeviceArgs == {PyStr("pantilt"), PyStr("visible")}
DigitalZoomArgs == {PyStr("on"), PyStr("off")}

(***************************************************************************)
(* State machine.  Init is the state after InfinitiAPI(base_url, auth);    *)
(* each action is one public method call.                                  *)
(***************************************************************************)
NoCall == [grp |-> "", name |-> "", args |-> <<>>]

Init ==
    /\ base_url \in BaseUrls
    /\ \E auth \in Auths : session_auth = SessionAuthInit(auth)
    /\ api_caller = [g \in Groups |-> TheCaller]
    /\ endpoint = EndpointInit
    /\ calls = 0
    /\ sent = 0
    /\ lastCall = NoCall
    /\ lastReqs = <<>>
    /\ outcome = NoOutcome
    /\ result = NotCalled

\* The calls are synchronous and made one after the other: the client takes
\* the result of a call before it makes the next one.
Client_takes_result ==
    /\ lastCall # NoCall
    /\ lastCall' = NoCall
    /\ lastReqs' = <<>>
    /\ outcome' = NoOutcome
    /\ result' = NotCalled
    /\ UNCHANGED <<base_url, session_auth, api_caller, endpoint, calls, sent>>

\* The client is free to make a call.
Ready == lastCall = NoCall /\ calls < MaxCalls

\* Step for a caller that keeps the url of its last request as its base_url
Step_rebasing(grp, name, args, eff, o) ==
    /\ calls' = calls + 1
    /\ sent' = sent + Len(eff.reqs)
    /\ lastCall' = [grp |-> grp, name |-> name, args |-> args]
    /\ lastReqs' = eff.reqs
    /\ outcome' = IF Len(eff.reqs) > 0 THEN o ELSE NoOutcome
    /\ result' = eff.res
    /\ base_url' = IF Len(eff.reqs) > 0 THEN eff.reqs[1].url ELSE base_url
    /\ UNCHANGED <<session_auth, api_caller, endpoint>>

\* One method call: eff is what the method does when the transport answers
\* its request with o.  No method writes the caller's or a group's fields.
Step(grp, name, args, eff, o) ==
    /\ calls' = calls + 1
    /\ sent' = sent + Len(eff.reqs)
    /\ lastCall' = [grp |-> grp, name |-> name, args |-> args]
    /\ lastReqs' = eff.reqs
    /\ outcome' = IF Len(eff.reqs) > 0 THEN o ELSE NoOutcome
    /\ result' = eff.res
    /\ UNCHANGED <<base_url, session_auth, api_caller, endpoint>>

\* A call of one of the caller's path builders: it returns a string, makes
\* no request and writes no field.
PathStep(name, args, path) ==
    /\ lastCall' = [grp |-> "caller", name |-> name, args |-> args]
    /\ lastReqs' = <<>>
    /\ outcome' = NoOutcome
    /\ result' = Return(PyStr(path))
    /\ UNCHANGED <<base_url, session_auth, api_caller, endpoint, calls, sent>>

\* RWYAPICaller._build_path with the prefixes of the four groups and
\* sub-paths the groups pass: None, '', a name, a name with an id
Call_Caller_build_path ==
    /\ Ready
    /\ \E g \in Groups,
          sub_path \in {None, PyStr(""), PyStr("position"), PyStr("presets/1")} :
          PathStep("_build_path", <<PyStr(endpoint[g]), sub_path>>,
                   build_path(endpoint[g], sub_path))

\* RWYAPICaller._build_path_with_query with an absent, an empty and three
\* non-empty mappings; a mapping that is None or empty is falsy
Call_Caller_build_path_with_query ==
    /\ Ready
    /\ \E g \in Groups,
          sub_path \in {None, PyStr(""), PyStr("gyro")},
          query_params \in
            {None, PyDict(<<>>), PyDict(Cmd("stop")),
             PyDict(<<Item("enable", PyBool(TRUE))>>),
             PyDict(<<Item("command", PyStr("move")),
                      Item("direction", PyStr("up")),
                      Item("speed", PyStr("1"))>>)} :
          PathStep("_build_path_with_query",
                   <<PyStr(endpoint[g]), sub_path, query_params>>,
                   build_path_with_query(endpoint[g], sub_path,
                       IF Truthy(query_params) THEN query_params.m ELSE <<>>))

\* RWYAPICaller.get / post called directly
EndpointArgs == {"api/system/time", build_path("api/devices", PyStr("visible"))}
Call_Caller_get ==
    /\ Ready
    /\ \E ep \in EndpointArgs, o \in Outcomes :
          Step("caller", "get", <<PyStr(ep)>>, get(ep, o), o)
Call_Caller_post ==
    /\ Ready
    /\ \E ep \in EndpointArgs, o \in Outcomes :
          Step("caller", "post", <<PyStr(ep), PosPayload>>, post(ep, PosPayload, o), o)
Call_System_get_status ==
    /\ Ready
    /\ \E o \in Outcomes :
          Step("system", "get_status", <<>>, System_get_status(o), o)
Call_System_get_versions ==
    /\ Ready
    /\ \E o \in Outcomes :
          Step("system", "get_versions", <<>>, System_get_versions(o), o)
Call_System_get_info ==
    /\ Ready
    /\ \E o \in Outcomes :
          Step("system", "get_info", <<>>, System_get_info(o), o)
Call_System_get_time ==
    /\ Ready
    /\ \E o \in Outcomes :
          Step("system", "get_time", <<>>, System_get_time(o), o)
Call_System_set_time ==
    /\ Ready
    /\ \E timestamp \in TimestampArgs, o \in Outcomes :
          Step("system", "set_time", <<timestamp>>, System_set_time(timestamp, o), o)
Call_System_get_ethernet ==
    /\ Ready
    /\ \E o \in Outcomes :
          Step("system", "get_ethernet", <<>>, System_get_ethernet(o), o)
Call_System_get_accounts ==
    /\ Ready
    /\ \E o \in Outcomes :
          Step("system", "get_accounts", <<>>, System_get_accounts(o), o)
Call_System_get_account ==
    /\ Ready
    /\ \E account_name \in AccountArgs, o \in Outcomes :
          Step("system", "get_account", <<account_name>>, System_get_account(account_name, o), o)
Call_System_restart_hardware ==
    /\ Ready
    /\ \E o \in Outcomes :
          Step("system", "restart_hardware", <<>>, System_restart_hardware(o), o)
Call_System_restart_software ==
    /\ Ready
    /\ \E o \in Outcomes :
          Step("system", "restart_software", <<>>, System_restart_software(o), o)
Call_System_get_presets ==
    /\ Ready
    /\ \E o \in Outcomes :
          Step("system", "get_presets", <<>>, System_get_presets(o), o)
Call_System_get_preset ==
    /\ Ready
    /\ \E preset_id \in PresetArgs, o \in Outcomes :
          Step("system", "get_preset", <<preset_id>>, System_get_preset(preset_id, o), o)
Call_System_delete_preset ==
    /\ Ready
    /\ \E preset_id \in PresetArgs, o \in Outcomes :
          Step("system", "delete_preset", <<preset_id>>, System_delete_preset(preset_id, o), o)
Call_System_goto_preset ==
    /\ Ready
    /\ \E preset_id \in PresetArgs, o \in Outcomes :
          Step("system", "goto_preset", <<preset_id>>, System_goto_preset(preset_id, o), o)
Call_System_stop_preset_move ==
    /\ Ready
    /\ \E o \in Outcomes :
          Step("system", "stop_preset_move", <<>>, System_stop_preset_move(o), o)
Call_System_delete_all_presets ==
    /\ Ready
    /\ \E o \in Outcomes :
          Step("system", "delete_all_presets", <<>>, System_delete_all_presets(o), o)
Call_Device_get_devices ==
    /\ Ready
    /\ \E o \in Outcomes :
          Step("device", "get_devices", <<>>, Device_get_devices(o), o)
Call_Device_get_device_state ==
    /\ Ready
    /\ \E device_name \in DeviceArgs, o \in Outcomes :
          Step("device", "get_device_state", <<device_name>>, Device_get_device_state(device_name, o), o)
Call_Device_reinitialize_device ==
    /\ Ready
    /\ \E device_name \in DeviceArgs, o \in Outcomes :
          Step("device", "reinitialize_device", <<device_name>>, Device_reinitialize_device(device_name, o), o)
Call_PanTilt_get_status ==
    /\ Ready
    /\ \E o \in Outcomes :
          Step("pantilt", "get_status", <<>>, PanTilt_get_status(o), o)
Call_PanTilt_get_position ==
    /\ Ready
    /\ \E o \in Outcomes :
          Step("pantilt", "get_position", <<>>, PanTilt_get_position(o), o)
Call_PanTilt_stop ==
    /\ Ready
    /\ \E o \in Outcomes :
          Step("pantilt", "stop", <<>>, PanTilt_stop(o), o)
Call_PanTilt_home ==
    /\ Ready
    /\ \E o \in Outcomes :
          Step("pantilt", "home", <<>>, PanTilt_home(o), o)
Call_PanTilt_get_config ==
    /\ Ready
    /\ \E o \in Outcomes :
          Step("pantilt", "get_config", <<>>, PanTilt_get_config(o), o)
Call_PanTilt_get_gyrostatus ==
    /\ Ready
    /\ \E o \in Outcomes :
          Step("pantilt", "get_gyrostatus", <<>>, PanTilt_get_gyrostatus(o), o)
Call_PanTilt_set_gyrostatus ==
    /\ Ready
    /\ \E status \in Bools, o \in Outcomes :
          Step("pantilt", "set_gyrostatus", <<status>>, PanTilt_set_gyrostatus(status, o), o)
Call_PanTilt_get_ethernet_config ==
    /\ Ready
    /\ \E o \in Outcomes :
          Step("pantilt", "get_ethernet_config", <<>>, PanTilt_get_ethernet_config(o), o)
Call_Visible_get_visiblelens ==
    /\ Ready
    /\ \E o \in Outcomes :
          Step("visible", "get_visiblelens", <<>>, Visible_get_visiblelens(o), o)
Call_Visible_set_zoom ==
    /\ Ready
    /\ \E zoom \in ZoomArgs, o \in Outcomes :
          Step("visible", "set_zoom", <<zoom>>, Visible_set_zoom(zoom, o), o)
Call_Visible_set_color ==
    /\ Ready
    /\ \E mode \in ColorArgs, o \in Outcomes :
          Step("visible", "set_color", <<mode>>, Visible_set_color(mode, o), o)
Call_Visible_run_backfocus ==
    /\ Ready
    /\ \E o \in Outcomes :
          Step("visible", "run_backfocus", <<>>, Visible_run_backfocus(o), o)
Call_Visible_set_digitalzoom ==
    /\ Ready
    /\ \E mode \in DigitalZoomArgs, o \in Outcomes :
          Step("visible", "set_digitalzoom", <<mode>>, Visible_set_digitalzoom(mode, o), o)
Call_Visible_set_digital_stabilization ==
    /\ Ready
    /\ \E enable \in Bools, o \in Outcomes :
          Step("visible", "set_digital_stabilization", <<enable>>, Visible_set_digital_stabilization(enable, o), o)
Call_Visible_move_lens ==
    /\ Ready
    /\ \E zoom_move \in ZoomMoveArgs, o \in Outcomes :
          Step("visible", "move_lens", <<zoom_move>>, Visible_move_lens(zoom_move, o), o)
Call_Visible_stop_lens ==
    /\ Ready
    /\ \E o \in Outcomes :
          Step("visible", "stop_lens", <<>>, Visible_stop_lens(o), o)
Call_Visible_set_fogfilter ==
    /\ Ready
    /\ \E state \in Bools, o \in Outcomes :
          Step("visible", "set_fogfilter", <<state>>, Visible_set_fogfilter(state, o), o)
Call_Visible_set_autofocus_mode ==
    /\ Ready
    /\ \E enable \in Bools, o \in Outcomes :
          Step("visible", "set_autofocus_mode", <<enable>>, Visible_set_autofocus_mode(enable, o), o)
Call_Visible_autofocus ==
    /\ Ready
    /\ \E o \in Outcomes :
          Step("visible", "autofocus", <<>>, Visible_autofocus(o), o)
Call_Visible_set_heatwave_intensity ==
    /\ Ready
    /\ \E mode \in HeatwaveArgs, o \in Outcomes :
          Step("visible", "set_heatwave_intensity", <<mode>>, Visible_set_heatwave_intensity(mode, o), o)
Call_Visible_get_config ==
    /\ Ready
    /\ \E o \in Outcomes :
          Step("visible", "get_config", <<>>, Visible_get_config(o), o)
Call_Visible_set_config ==
    /\ Ready
    /\ \E o \in Outcomes :
          Step("visible", "set_config", <<>>, Visible_set_config(o), o)
Call_Visible_zoomTele ==
    /\ Ready
    /\ \E o \in Outcomes :
          Step("visible", "zoomTele", <<>>, Visible_zoomTele(o), o)
Call_Visible_zoomWide ==
    /\ Ready
    /\ \E o \in Outcomes :
          Step("visible", "zoomWide", <<>>, Visible_zoomWide(o), o)
Call_Visible_focusFar ==
    /\ Ready
    /\ \E o \in Outcomes :
          Step("visible", "focusFar", <<>>, Visible_focusFar(o), o)
Call_Visible_focusNear ==
    /\ Ready
    /\ \E o \in Outcomes :
          Step("visible", "focusNear", <<>>, Visible_focusNear(o), o)
Call_PanTilt_set_position ==
    /\ Ready
    /\ \E a \in PositionArgs, o \in Outcomes :
          Step("pantilt", "set_position", a, PanTilt_set_position(a[1], a[2], o), o)
Call_PanTilt_relative_move ==
    /\ Ready
    /\ \E d \in DirectionArgs, a \in RelativeSpeedArgs, o \in Outcomes :
          Step("pantilt", "relative_move", <<d>> \o a,
             PanTilt_relative_move(d, a[1], a[2], a[3], o), o)
Call_PanTilt_continuous_move ==
    /\ Ready
    /\ \E pan_speed \in Speeds, tilt_speed \in Speeds, o \in Outcomes :
          Step("pantilt", "continuous_move", <<PyInt(pan_speed), PyInt(tilt_speed)>>,
             PanTilt_continuous_move(pan_speed, tilt_speed, o), o)
Call_Visible_set_visiblelens ==
    /\ Ready
    /\ \E a \in LensArgs, o \in Outcomes :
          Step("visible", "set_visiblelens", a, Visible_set_visiblelens(a[1], a[2], o), o)
Call_Visible_continuous_zoom ==
    /\ Ready
    /\ \E speed \in Speeds, o \in Outcomes :
          Step("visible", "continuous_zoom", <<PyInt(speed)>>,
             Visible_continuous_zoom(speed, o), o)

Next ==
    \/ Client_takes_result
    \/ Call_Caller_build_path
    \/ Call_Caller_build_path_with_query
    \/ Call_Caller_get
    \/ Call_Caller_post
    \/ Call_System_get_status
    \/ Call_System_get_versions
    \/ Call_System_get_info
    \/ Call_System_get_time
    \/ Call_System_set_time
    \/ Call_System_get_ethernet
    \/ Call_System_get_accounts
    \/ Call_System_get_account
    \/ Call_System_restart_hardware
    \/ Call_System_restart_software
    \/ Call_System_get_presets
    \/ Call_System_get_preset
    \/ Call_System_delete_preset
    \/ Call_System_goto_preset
    \/ Call_System_stop_preset_move
    \/ Call_System_delete_all_presets
    \/ Call_Device_get_devices
    \/ Call_Device_get_device_state
    \/ Call_Device_reinitialize_device
    \/ Call_PanTilt_get_status
    \/ Call_PanTilt_get_position
    \/ Call_PanTilt_stop
    \/ Call_PanTilt_home
    \/ Call_PanTilt_get_config
    \/ Call_PanTilt_get_gyrostatus
    \/ Call_PanTilt_set_gyrostatus
    \/ Call_PanTilt_get_ethernet_config
    \/ Call_Visible_get_visiblelens
    \/ Call_Visible_set_zoom
    \/ Call_Visible_set_color
    \/ Call_Visible_run_backfocus
    \/ Call_Visible_set_digitalzoom
    \/ Call_Visible_set_digital_stabilization
    \/ Call_Visible_move_lens
    \/ Call_Visible_stop_lens
    \/ Call_Visible_set_fogfilter
    \/ Call_Visible_set_autofocus_mode
    \/ Call_Visible_autofocus
    \/ Call_Visible_set_heatwave_intensity
    \/ Call_Visible_get_config
    \/ Call_Visible_set_config
    \/ Call_Visible_zoomTele
    \/ Call_Visible_zoomWide
    \/ Call_Visible_focusFar
    \/ Call_Visible_focusNear
    \/ Call_PanTilt_set_position
    \/ Call_PanTilt_relative_move
    \/ Call_PanTilt_continuous_move
    \/ Call_Visible_set_visiblelens
    \/ Call_Visible_continuous_zoom

Spec == Init /\ [][Next]_vars

(***************************************************************************)
(* Properties.                                                             *)
(***************************************************************************)
Called(grp, name) == lastCall.grp = grp /\ lastCall.name = name
CallerCalled == lastCall.grp = "caller" /\ lastCall.name \in {"get", "post"}
\* the one request of the last call
TheRequest == lastReqs[1]
OneGet == Len(lastReqs) = 1 /\ TheRequest.method = "GET"
OnePost == Len(lastReqs) = 1 /\ TheRequest.method = "POST"

\* the response was delivered and its body parsed to a mapping without `data`
NoDataKey(o) ==
    o.conn /\ o.body.valid /\ o.body.json.t = "dict" /\ ~HasKey(o.body.json, "data")
\* the response was delivered and its body parsed to something not a mapping
NotAMapping(o) == o.conn /\ o.body.valid /\ o.body.json.t # "dict"
\* the response was delivered and its body is not valid JSON
InvalidJson(o) == o.conn /\ ~o.body.valid
Non2xxStatus(o) == o.conn /\ ~(200 <= o.status /\ o.status < 300)
ErrorStatus(o) == o.conn /\ 400 <= o.status /\ o.status < 600
Is2xxStatus(o) == o.conn /\ 200 <= o.status /\ o.status < 300

\* C1 as stated: for a connection error, a non-2xx status, a body that is
\* not valid JSON, JSON without a `data` key and JSON that is not a mapping,
\* get and post return None and raise nothing.
C1_Non2xxGivesNone ==
    (CallerCalled /\ (\/ ~outcome.conn
                      \/ Non2xxStatus(outcome)
                      \/ InvalidJson(outcome)
                      \/ NoDataKey(outcome)
                      \/ NotAMapping(outcome)))
        => result = Return(None)

\* C1 as amended: get and post never raise; they return None for a
\* connection error, a 4xx or 5xx status, a body that is not valid JSON,
\* JSON without a `data` key and JSON that is not a mapping.  (A 3xx
\* response that reaches the caller is unwrapped like a 2xx one.)
C1_FailuresGiveNone ==
    CallerCalled =>
        /\ result.kind = "return"
        /\ (\/ ~outcome.conn
            \/ ErrorStatus(outcome)
            \/ InvalidJson(outcome)
            \/ NoDataKey(outcome)
            \/ NotAMapping(outcome)) => result = Return(None)

C1_Witness ==
    /\ Called("caller", "post")
    /\ outcome = Http(404, Json(Envelope(PosPayload)))
    /\ result = Return(None)

\* the methods that issue a GET and hand back what the caller returned,
\* whole or destructured (the visible-lens commands reduce it to a boolean)
PayloadGetters ==
    {<<"system", n>> : n \in {"get_status", "get_versions", "get_info",
        "get_time", "get_ethernet", "get_accounts", "get_account",
        "restart_hardware", "restart_software", "get_presets", "get_preset",
        "delete_preset", "goto_preset", "stop_preset_move",
        "delete_all_presets"}}
    \cup {<<"device", n>> : n \in {"get_devices", "get_device_state",
        "reinitialize_device"}}
    \cup {<<"pantilt", n>> : n \in {"get_status", "get_position",
        "relative_move", "continuous_move", "stop", "home", "get_config",
        "get_gyrostatus", "set_gyrostatus", "get_ethernet_config"}}
    \cup {<<"visible", n>> : n \in {"get_visiblelens", "get_config"}}

\* C2: when the response has no `data` key, a GET-based method raises
\* nothing, and one that hands back the payload (get_position and
\* get_visiblelens among them) returns None.
C2_NoDataGivesNone ==
    (OneGet /\ lastCall.grp \in Groups /\ Is2xxStatus(outcome) /\ NoDataKey(outcome))
        => /\ result.kind = "return"
           /\ <<lastCall.grp, lastCall.name>> \in PayloadGetters
                  => result = Return(None)

\* C3: on a successful HTTP response whose body is JSON, get and post
\* return the value under `data` when the JSON is a mapping with a `data`
\* key, and None for every other JSON value.
C3_Unwrap ==
    (CallerCalled /\ Is2xxStatus(outcome) /\ outcome.body.valid)
        => LET j == outcome.body.json
           IN IF j.t = "dict" /\ \E i \in 1..Len(j.m) : j.m[i].k = "data"
              THEN \E i \in 1..Len(j.m) :
                      j.m[i].k = "data" /\ result = Return(j.m[i].v)
              ELSE result = Return(None)

C3_Witness ==
    /\ Called("caller", "get")
    /\ outcome = Http(200, Json(Envelope(PosPayload)))
    /\ result = Return(PosPayload)

\* C4 as stated: the number of requests issued equals the number of method
\* calls made.
C4_RequestsEqualCalls == sent = calls

\* C4 as amended: every method call issues exactly one request, except a
\* call rejected by its allow-list check, which raises ValueError and
\* issues none.
C4_OneRequestUnlessRejected ==
    [][calls' = calls + 1 =>
          IF result'.kind = "raise" /\ result'.exc = "ValueError"
          THEN sent' = sent /\ lastReqs' = <<>>
          ELSE sent' = sent + 1 /\ Len(lastReqs') = 1]_vars

C4_Witness ==
    /\ calls = 2
    /\ sent = 1
    /\ Called("pantilt", "continuous_move")
    /\ lastCall.args = <<PyInt(0), PyInt(0)>>
    /\ Len(lastReqs) = 1

\* C5: set_color, move_lens and set_heatwave_intensity raise a validation
\* error and issue no request when the argument is outside the allow-list,
\* and issue exactly one GET carrying the command when it is inside.
C5_AllowLists ==
    /\ Called("visible", "set_color") =>
          LET mode == lastCall.args[1].s
          IN IF mode \in {"day", "night", "autoColor"}
             THEN OneGet /\ HasParam(TheRequest.url, "command", mode)
             ELSE result = Raise("ValueError") /\ lastReqs = <<>>
    /\ Called("visible", "move_lens") =>
          LET zoom_move == lastCall.args[1].s
          IN IF zoom_move \in {"zoomTele", "zoomWide", "focusFar", "focusNear"}
             THEN OneGet /\ HasParam(TheRequest.url, "command", zoom_move)
             ELSE result = Raise("ValueError") /\ lastReqs = <<>>
    /\ Called("visible", "set_heatwave_intensity") =>
          LET mode == lastCall.args[1].s
          IN IF mode \in {"Low", "Medium", "High"}
             THEN /\ OneGet
                  /\ HasParam(TheRequest.url, "command", "heatwaveIntensityMode")
                  /\ HasParam(TheRequest.url, "mode", mode)
             ELSE result = Raise("ValueError") /\ lastReqs = <<>>

C5_Witness ==
    /\ Called("visible", "set_color")
    /\ lastCall.args = <<PyStr("day")>>
    /\ OneGet
    /\ TheRequest.url = base_url \o "/api/devices/visible?command=day"

\* the state-setting POST methods C6 names
StateSetters ==
    { <<"visible", "set_zoom">>, <<"visible", "set_visiblelens">>,
      <<"visible", "set_config">>, <<"pantilt", "set_position">>,
      <<"system", "set_time">> }

\* C6: a state-setting POST method returns True when the unwrapped response
\* is None (here: the connection failed) and False when it is a payload
\* (here: a 200 response whose envelope carries the position payload).
C6_SettersReturnBoolean ==
    (<<lastCall.grp, lastCall.name>> \in StateSetters /\ OnePost) =>
        /\ ~outcome.conn => result = Return(PyBool(TRUE))
        /\ outcome = Http(200, Json(Envelope(PosPayload)))
              => result = Return(PyBool(FALSE))

\* the visible-lens methods documented to return a success boolean
BooleanMethods ==
    {"set_zoom", "set_visiblelens", "set_color", "run_backfocus",
     "set_digitalzoom", "set_digital_stabilization", "move_lens", "stop_lens",
     "set_fogfilter", "set_autofocus_mode", "autofocus",
     "set_heatwave_intensity", "set_config", "zoomTele", "zoomWide",
     "focusFar", "focusNear"}

\* C7: a boolean-returning visible-lens method returns False when its
\* request fails (connection error or error status).
C7_FailedRequestReturnsFalse ==
    (lastCall.grp = "visible" /\ lastCall.name \in BooleanMethods
        /\ Len(lastReqs) = 1 /\ (~outcome.conn \/ ErrorStatus(outcome)))
        => result = Return(PyBool(FALSE))

\* C8: continuous_move(0, 0) issues one GET with command=stop and no move
\* command; with both speeds non-zero it issues one GET with command=move,
\* the direction made of the vertical then the horizontal token, and
\* panSpeed = |pan_speed|, tiltSpeed = |tilt_speed|.
C8_ContinuousMove ==
    Called("pantilt", "continuous_move") =>
        LET pan == lastCall.args[1].n
            tilt == lastCall.args[2].n
            vertical == IF tilt > 0 THEN "up" ELSE "down"
            horizontal == IF pan > 0 THEN "right" ELSE "left"
        IN /\ (pan = 0 /\ tilt = 0) =>
                /\ OneGet
                /\ HasParam(TheRequest.url, "command", "stop")
                /\ ~HasParam(TheRequest.url, "command", "move")
           /\ (pan # 0 /\ tilt # 0) =>
                /\ OneGet
                /\ HasParam(TheRequest.url, "command", "move")
                /\ HasParam(TheRequest.url, "direction", vertical \o horizontal)
                /\ HasParam(TheRequest.url, "panSpeed", ToString(Abs(pan)))
                /\ HasParam(TheRequest.url, "tiltSpeed", ToString(Abs(tilt)))

C8_Witness ==
    /\ Called("pantilt", "continuous_move")
    /\ lastCall.args = <<PyInt(2), PyInt(-1)>>
    /\ OneGet
    /\ TheRequest.url = base_url \o
         "/api/devices/pantilt?command=move&direction=downright&panSpeed=2&tiltSpeed=1"

\* C9: continuous_move returns the response of the command it issued, for
\* every pair of speeds: when the transport answers 200 with the position
\* payload in the envelope, that payload is what the call returns.
C9_ContinuousMoveReturnsResponse ==
    (Called("pantilt", "continuous_move")
        /\ outcome = Http(200, Json(Envelope(PosPayload))))
        => result = Return(PosPayload)

\* C10: relative_move rejects a move_direction outside up, down, left,
\* right with a validation error and issues no request.
C10_RelativeMoveValidates ==
    (Called("pantilt", "relative_move")
        /\ lastCall.args[1].s \notin {"up", "down", "left", "right"})
        => result = Raise("ValueError") /\ lastReqs = <<>>

\* the text of x after its first n characters
After(x, n) == SubSeq(x, n + 1, Len(x))

\* C11: build_path joins base_url, the prefix and the sub-path (when there
\* is one) by single "/" separators, with nothing trailing: what follows
\* base_url starts with one "/", holds no "//" and does not end in "/".
\* This is to hold for the prefixes and sub-paths the groups pass.
C11_SingleSeparators ==
    Called("caller", "_build_path") =>
        LET path == result.val.s
            rest == After(path, Len(base_url))
        IN /\ StartsWith(path, base_url \o "/")
           /\ ~Contains(rest, "//")
           /\ ~EndsWith(rest, "/")

\* the number of places of x where the character c stands
CountOf(x, c) == Cardinality({i \in 1..Len(x) : SubSeq(x, i, i) = c})
\* the first n items as key=value, in their order, with "&" between them
RECURSIVE JoinedPairs(_, _)
JoinedPairs(items, n) ==
    IF n = 0 THEN ""
    ELSE (IF n = 1 THEN "" ELSE JoinedPairs(items, n - 1) \o "&")
         \o items[n].k \o "=" \o PyFormat(items[n].v)

\* C12: for a non-empty mapping build_path_with_query returns build_path's
\* output, one "?" and the key=value pairs joined by "&" in insertion
\* order; for an empty or absent mapping it returns build_path's output.
C12_QueryAppended ==
    Called("caller", "_build_path_with_query") =>
        LET path == build_path(lastCall.args[1].s, lastCall.args[2])
            query_params == lastCall.args[3]
        IN IF query_params.t = "dict" /\ Len(query_params.m) > 0
           THEN /\ result = Return(PyStr(path \o "?" \o
                       JoinedPairs(query_params.m, Len(query_params.m))))
                /\ CountOf(result.val.s, "?") = 1
           ELSE result = Return(PyStr(path))

C12_Witness ==
    /\ Called("caller", "_build_path_with_query")
    /\ lastCall.args[1] = PyStr("api/devices/pantilt")
    /\ lastCall.args[2] = None
    /\ Len(lastCall.args[3].m) = 3
    /\ result = Return(PyStr(base_url \o
          "/api/devices/pantilt?command=move&direction=up&speed=1"))

\* C13: when the transport returns an envelope whose data has pan and tilt,
\* get_position issues one GET to the position sub-path and returns the
\* pair (pan, tilt), in that order.
C13_PositionPair ==
    (Called("pantilt", "get_position")
        /\ outcome.conn /\ ~ErrorStatus(outcome)
        /\ outcome.body = Json(Envelope(PosPayload)))
        => /\ OneGet
           /\ TheRequest.url = base_url \o "/api/devices/pantilt/position"
           /\ result = Return(PyTuple2(PyInt(10), PyInt(-3)))

C13_Witness ==
    /\ Called("pantilt", "get_position")
    /\ outcome = Http(200, Json(Envelope(PosPayload)))
    /\ result = Return(PyTuple2(PyInt(10), PyInt(-3)))
    /\ sent = calls

\* C14: no method call, whether it succeeds, fails at the transport or
\* fails validation, changes the session context (base URL, credentials)
\* or a group's caller reference or prefix, and the four groups keep
\* referring to one and the same caller.
C14_ContextFrozen ==
    [][/\ base_url' = base_url
       /\ session_auth' = session_auth
       /\ api_caller' = api_caller
       /\ endpoint' = endpoint
       /\ \A g, h \in Groups : api_caller'[g] = api_caller'[h]]_vars

C14_Witness ==
    /\ calls = 3
    /\ sent = 2
    /\ result = Raise("ValueError")
    /\ base_url \in BaseUrls
    /\ endpoint = EndpointInit
    /\ \A g \in Groups : api_caller[g] = TheCaller

\* C15: continuous_move with exactly one speed equal to 0 issues one GET
\* with command=move, the direction of the moving axis alone and one
\* shared speed = max(|pan_speed|, |tilt_speed|), without panSpeed or
\* tiltSpeed; no continuous_move query carries both the shared speed and a
\* per-axis speed.
C15_SingleAxisMove ==
    Called("pantilt", "continuous_move") =>
        LET pan == lastCall.args[1].n
            tilt == lastCall.args[2].n
            url == TheRequest.url
            token == IF pan > 0 THEN "right"
                     ELSE IF pan < 0 THEN "left"
                     ELSE IF tilt > 0 THEN "up" ELSE "down"
            moving == IF pan # 0 THEN pan ELSE tilt
        IN /\ ((pan = 0) # (tilt = 0)) =>
                /\ OneGet
                /\ HasParam(url, "command", "move")
                /\ HasParam(url, "direction", token)
                /\ HasParam(url, "speed", ToString(IF moving < 0 THEN 0 - moving ELSE moving))
                /\ ~HasParamNamed(url, "panSpeed")
                /\ ~HasParamNamed(url, "tiltSpeed")
           /\ Len(lastReqs) = 1
           /\ ~(HasParamNamed(url, "speed")
                 /\ (HasParamNamed(url, "panSpeed") \/ HasParamNamed(url, "tiltSpeed")))

C15_Witness ==
    /\ Called("pantilt", "continuous_move")
    /\ lastCall.args = <<PyInt(0), PyInt(-2)>>
    /\ OneGet
    /\ TheRequest.url = base_url \o
         "/api/devices/pantilt?command=move&direction=down&speed=2"

\* the visible-lens methods that return `<response> is None`
IsNoneMethods == (BooleanMethods \ {"set_config"}) \cup {"continuous_zoom"}
\* the response was delivered without an error status and its envelope is
\* {"data": null}
NullData(o) == o.conn /\ ~ErrorStatus(o) /\ o.body = Json(Envelope(None))

====
